---------------------------- MODULE Spec2Model ----------------------------
(***************************************************************************)
(* Model of the Polymarket streaming client (src/src/polymarket/websocket.rs*)
(* and its collaborators).                                                 *)
(*                                                                         *)
(*  - Spec       the life of one connect_and_subscribe call: the caller,   *)
(*               the spawned receive loop, the spawned heartbeat loop, the *)
(*               bounded output channel and its consumer.                  *)
(*  - SpecParse  the normalisation of one inbound text frame               *)
(*               (pong check, parse_message, Raw fallback) over the whole  *)
(*               bounded domain of frame texts.                            *)
(*  - SpecSize   SizeCalculator and its shared cache (strategy/).          *)
(*  - SpecFees   the FeeCalculator functions over bounded decimals.        *)
(*  - SpecClient PolymarketClient driving one connection through the       *)
(*               PlatformClient trait (connect, start, disconnect).        *)
(*  - SpecSubscriptions  the subscribed-market list under subscribe and    *)
(*               unsubscribe with every bounded slice of ids.              *)
(*  - SpecReconnect  a second connect_and_subscribe call on the same       *)
(*               client while the tasks of the first are still alive.      *)
(***************************************************************************)
EXTENDS Integers, Sequences, FiniteSets, TLC

RECURSIVE Pow10(_)
RECURSIVE Normalized(_)
RECURSIVE SizedLegsFrom(_, _, _, _)
RECURSIVE SizedLegsFrom_SkipsUnresolved(_, _, _, _)
RECURSIVE subscribe(_, _)
RECURSIVE subscribe_AlwaysPushes(_, _)

(***************************************************************************)
(* Bounds of the model.                                                    *)
(***************************************************************************)
\* capacity of the output channel the caller passes (mpsc::channel(n), n >= 1)
Capacity == 2
\* number of frames the transport delivers to one connection
MaxFrames == 2
\* number of heartbeat ticks counted while the liveness flag is set
MaxTicks == 1
\* longest bids / asks / changes array of an inbound JSON message
MaxLevels == 2
\* most legs of a trade intent
MaxLegs == 2
\* longest asset_ids slice given to subscribe / unsubscribe
MaxIds == 2

(***************************************************************************)
(* Inbound text frames.  A text is a record: `form` says whether it is one *)
(* of the literal non-JSON texts, a JSON value that is not an object, or a *)
(* JSON object; the other fields are the members of the object that        *)
(* parse_message and the message structs look at.                          *)
(***************************************************************************)
Absent == "<absent>"
JsonNull == "<null>"
EtNonString == "<number>"

EventTypes ==
    {Absent, EtNonString, "book", "price_change", "trade", "last_trade_price", "tick_size_change"}

\* rust_decimal's FromStr, in hundredths; -1 stands for Err
ParseDecimal(s) ==
    CASE s = "0.50" -> 50
      [] s = "0.52" -> 52
      [] s = "25" -> 2500
      [] s = "100" -> 10000
      [] OTHER -> -1

\* Decimal::default()
DecimalDefault == 0

SideTokens == {"buy", "BID", "sell", "Ask", "hold"}

\* str::to_lowercase on the side tokens
to_lowercase(s) ==
    CASE s = "BID" -> "bid"
      [] s = "Ask" -> "ask"
      [] OTHER -> s

BookLevels ==
    { [price |-> "0.50", size |-> "100"],
      [price |-> "0.52", size |-> "25"],
      [price |-> "abc", size |-> "100"],
      [price |-> "0.52", size |-> "abc"] }

PriceChanges ==
    { [side |-> "buy", price |-> "0.50", size |-> "100"],
      [side |-> "Ask", price |-> "0.52", size |-> "25"],
      [side |-> "hold", price |-> "0.50", size |-> "100"],
      [side |-> "sell", price |-> "abc", size |-> "100"] }

SeqsUpTo(S, n) == UNION { [1..k -> S] : k \in 0..n }

\* a member that holds an array: absent, of the wrong JSON type, or an array
ArrayMember(S) ==
    { [st |-> "absent", items |-> <<>>], [st |-> "bad", items |-> <<>>] }
      \cup { [st |-> "array", items |-> s] : s \in SeqsUpTo(S, MaxLevels) }

NoArray == [st |-> "absent", items |-> <<>>]

Text(form, et, asset, market, id, price, size, side, bids, asks, changes) ==
    [form |-> form, event_type |-> et, asset_id |-> asset, market |-> market,
     id |-> id, price |-> price, size |-> size, side |-> side,
     bids |-> bids, asks |-> asks, changes |-> changes]

\* a text that is no JSON object: only its form matters
PlainText(form) ==
    Text(form, Absent, Absent, Absent, Absent, Absent, Absent, Absent,
         NoArray, NoArray, NoArray)

PlainTexts == { PlainText(f) : f \in {"PONG", "pong", "Pong", "garbage", "array"} }

\* JSON objects of the book family: every event_type, with and without arrays
BookTexts ==
    [form : {"object"}, event_type : EventTypes, asset_id : {Absent, "a1"},
     market : {Absent, "m1"}, id : {Absent}, price : {Absent}, size : {Absent},
     side : {Absent}, bids : ArrayMember(BookLevels),
     asks : ArrayMember(BookLevels), changes : {NoArray}]

PriceChangeTexts ==
    { Text("object", "price_change", a, Absent, Absent, p, Absent, Absent,
           NoArray, NoArray, c) :
        a \in {Absent, "a1"}, p \in {Absent, "0.52", "abc"},
        c \in ArrayMember(PriceChanges) }

TradeTexts ==
    { Text("object", et, a, Absent, i, p, s, sd, NoArray, NoArray, NoArray) :
        et \in {"trade", "last_trade_price"}, a \in {Absent, "a1"},
        i \in {Absent, JsonNull, "t1"}, p \in {Absent, "0.52", "abc"},
        s \in {Absent, "25", "abc"}, sd \in SideTokens \cup {Absent} }

TextDomain == PlainTexts \cup BookTexts \cup PriceChangeTexts \cup TradeTexts


(***************************************************************************)
(* The unified event model (src/src/common/types.rs).                      *)
(***************************************************************************)
Connected == [tag |-> "Connected"]
Disconnected(reason) == [tag |-> "Disconnected", reason |-> reason]
Reconnecting(attempt) == [tag |-> "Reconnecting", attempt |-> attempt]
Error(msg) == [tag |-> "Error", msg |-> msg]

ConnectionStatusEvent(status) ==
    [type |-> "ConnectionStatus", platform |-> "Polymarket", status |-> status]

HeartbeatEvent == [type |-> "Heartbeat", platform |-> "Polymarket"]

RawEvent(message) == [type |-> "Raw", platform |-> "Polymarket", message |-> message]

PriceLevel(price, size) == [price |-> price, size |-> size]

TypedEventTypes == {"OrderBook", "OrderBookUpdate", "Trade", "MarketInfo"}

(***************************************************************************)
(* serde: whether serde_json::from_value::<T>(value) succeeds.  A required *)
(* String member must be present; an Option member may be absent or null;  *)
(* a #[serde(default)] Vec member may be absent but must be an array of    *)
(* well-shaped elements when present.                                      *)
(***************************************************************************)
unwrap_or_default(opt) == IF opt \in {Absent, JsonNull} THEN "" ELSE opt

DeserializesAsBookUpdateEvent(value) ==
    /\ value.event_type # EtNonString
    /\ value.asset_id # Absent
    /\ value.bids.st # "bad"
    /\ value.asks.st # "bad"

DeserializesAsPriceChangeEvent(value) ==
    /\ value.event_type # EtNonString
    /\ value.asset_id # Absent
    /\ (value.price # Absent => ParseDecimal(value.price) >= 0)
    /\ value.changes.st # "bad"

DeserializesAsTradeEvent(value) ==
    /\ value.event_type # EtNonString
    /\ value.asset_id # Absent
    /\ value.price # Absent
    /\ value.size # Absent
    /\ value.side # Absent

DeserializesAsLastTradePriceEvent(value) ==
    /\ value.event_type # EtNonString
    /\ value.asset_id # Absent
    /\ value.price # Absent

(***************************************************************************)
(* The message normaliser.                                                 *)
(***************************************************************************)
LevelParses(level) == ParseDecimal(level.price) >= 0 /\ ParseDecimal(level.size) >= 0

\* mutant of ToPriceLevels: a level that fails to parse is kept, with defaults
ToPriceLevels_KeepsAll(levels) ==
    [i \in 1..Len(levels) |->
        PriceLevel(IF ParseDecimal(levels[i].price) >= 0
                   THEN ParseDecimal(levels[i].price) ELSE DecimalDefault,
                   IF ParseDecimal(levels[i].size) >= 0
                   THEN ParseDecimal(levels[i].size) ELSE DecimalDefault)]

\* into_iter().filter_map(|level| Some(PriceLevel { price: ..parse().ok()?, .. })).collect()
ToPriceLevels(levels) ==
    LET kept == SelectSeq(levels, LevelParses)
    IN  [i \in 1..Len(kept) |->
            PriceLevel(ParseDecimal(kept[i].price), ParseDecimal(kept[i].size))]

convert_book_update(event) ==
    [type |-> "OrderBookUpdate",
     platform |-> "Polymarket",
     market_id |-> unwrap_or_default(event.market),
     asset_id |-> event.asset_id,
     bids |-> ToPriceLevels(event.bids.items),
     asks |-> ToPriceLevels(event.asks.items),
     is_snapshot |-> (event.event_type = "book"),
     sequence |-> 0]

IsBidChange(change) == LevelParses(change) /\ to_lowercase(change.side) \in {"buy", "bid"}
IsAskChange(change) == LevelParses(change) /\ to_lowercase(change.side) \in {"sell", "ask"}

convert_price_change(event) ==
    [type |-> "OrderBookUpdate",
     platform |-> "Polymarket",
     market_id |-> unwrap_or_default(event.market),
     asset_id |-> event.asset_id,
     bids |-> ToPriceLevels(SelectSeq(event.changes.items, IsBidChange)),
     asks |-> ToPriceLevels(SelectSeq(event.changes.items, IsAskChange)),
     is_snapshot |-> FALSE,
     sequence |-> 0]

ParseOrDefault(s) == IF ParseDecimal(s) >= 0 THEN ParseDecimal(s) ELSE DecimalDefault

convert_trade(event) ==
    [type |-> "Trade",
     platform |-> "Polymarket",
     market_id |-> unwrap_or_default(event.market),
     asset_id |-> event.asset_id,
     trade_id |-> unwrap_or_default(event.id),
     price |-> ParseOrDefault(event.price),
     size |-> ParseOrDefault(event.size),
     side |-> IF to_lowercase(event.side) \in {"buy", "bid"} THEN "Buy" ELSE "Sell"]

\* format!("Last trade price for {}: {}", asset_id, price)
LastTradePriceSummary(event) ==
    [fmt |-> "Last trade price for {}: {}", asset_id |-> event.asset_id, price |-> event.price]

Ok(event) == [ok |-> TRUE, event |-> event]
Err == [ok |-> FALSE]

\* serde_json::from_str::<Value>(text) succeeds
IsJson(text) == text.form \in {"array", "object"}

\* value.get("event_type").and_then(|v| v.as_str()) is Some(_)
HasEventTypeStr(text) ==
    text.form = "object" /\ text.event_type \notin {Absent, EtNonString}

\* value.get(member).is_some()
HasMember(text, member) ==
    text.form = "object" /\
    CASE member = "id" -> text.id # Absent
      [] member = "bids" -> text.bids.st # "absent"
      [] member = "asks" -> text.asks.st # "absent"

\* the last-trade-price branch of parse_message (no "id" member)
ParseLastTradePrice(text) ==
    IF DeserializesAsLastTradePriceEvent(text)
    THEN Ok(RawEvent(LastTradePriceSummary(text)))
    ELSE Err

\* the final arm of parse_message
ParseFallthrough(text) == Ok(RawEvent(text))

\* the structural sniff and what follows it
ParseGeneral(text) ==
    IF HasMember(text, "bids") /\ HasMember(text, "asks")
    THEN IF DeserializesAsBookUpdateEvent(text) THEN Ok(convert_book_update(text)) ELSE Err
    ELSE ParseFallthrough(text)

parse_message(text) ==
    IF ~IsJson(text) THEN Err
    ELSE IF HasEventTypeStr(text) /\ text.event_type = "book"
    THEN IF DeserializesAsBookUpdateEvent(text) THEN Ok(convert_book_update(text)) ELSE Err
    ELSE IF HasEventTypeStr(text) /\ text.event_type = "price_change"
    THEN IF DeserializesAsPriceChangeEvent(text) THEN Ok(convert_price_change(text)) ELSE Err
    ELSE IF HasEventTypeStr(text) /\ text.event_type \in {"trade", "last_trade_price"}
    THEN IF HasMember(text, "id")
         THEN IF DeserializesAsTradeEvent(text) THEN Ok(convert_trade(text)) ELSE Err
         ELSE ParseLastTradePrice(text)
    ELSE ParseGeneral(text)

\* text == "PONG" || text == "pong"
IsPongText(text) == text.form \in {"PONG", "pong"}

(***************************************************************************)
(* The strategy layer (src/src/strategy): Option values are sequences of   *)
(* length at most one.                                                     *)
(***************************************************************************)
Some(x) == <<x>>
OptionNone == <<>>

\* Option::unwrap_or
unwrap_or(opt, default) == IF opt = OptionNone THEN default ELSE opt[1]

Platforms == {"Kalshi", "Polymarket"}
Sides == {"Buy", "Sell"}

\* SizeKey::new
SizeKey(platform, market_id, side) ==
    [platform |-> platform, market_id |-> market_id, side |-> side]

\* the keys of the model: they differ in platform, in market and in side
SizeKeys ==
    { SizeKey("Kalshi", "m1", "Buy"),
      SizeKey("Polymarket", "m1", "Buy"),
      SizeKey("Polymarket", "m2", "Sell") }

\* the (size, price, computed_at) a computation may produce; sizes in units,
\* prices in hundredths, computed_at as a logical time
ComputedValues ==
    { [size |-> 5, price |-> 40, computed_at |-> 1],
      [size |-> 0, price |-> 50, computed_at |-> 2] }

ComputedSize(key, v) ==
    [platform |-> key.platform, market_id |-> key.market_id, side |-> key.side,
     size |-> v.size, price |-> v.price, computed_at |-> v.computed_at]

ComputedSizes == { ComputedSize(k, v) : k \in SizeKeys, v \in ComputedValues }

TradeLeg(key, suggested_price) ==
    [platform |-> key.platform, market_id |-> key.market_id, side |-> key.side,
     suggested_price |-> suggested_price]

\* a leg for every key, and one that suggests a price of its own
TradeLegs ==
    { TradeLeg(k, OptionNone) : k \in SizeKeys }
      \cup { TradeLeg(SizeKey("Kalshi", "m1", "Buy"), Some(45)) }

\* TradeIntent::single and TradeIntent::multi: any vector of legs, the empty one too
TradeIntents == { [legs |-> l, reason |-> "arb"] : l \in SeqsUpTo(TradeLegs, MaxLegs) }

\* SizeKey::from_leg
from_leg(leg) == SizeKey(leg.platform, leg.market_id, leg.side)

SizedLeg(leg, computed) ==
    [platform |-> leg.platform, market_id |-> leg.market_id, side |-> leg.side,
     size |-> computed.size, price |-> unwrap_or(leg.suggested_price, computed.price)]

(***************************************************************************)
(* std::collections::HashMap as a set of (key, value) entries.             *)
(***************************************************************************)
MapEntry(key, value) == [key |-> key, value |-> value]

\* mutant of HashMapInsert: the entry already stored under the key is kept too
HashMapInsert_KeepsOld(map, key, value) == map \cup { MapEntry(key, value) }

\* mutant of HashMapInsert: the value stored under the key is overwritten
\* field by field, and the price of the old value is left behind
HashMapInsert_Torn(map, key, value) ==
    { e \in map : e.key # key } \cup
    { MapEntry(key, [value EXCEPT !.price = e.value.price]) : e \in { d \in map : d.key = key } } \cup
    (IF \E e \in map : e.key = key THEN {} ELSE { MapEntry(key, value) })

\* HashMap::insert: the value replaces the one stored under an equal key
HashMapInsert(map, key, value) ==
    { e \in map : e.key # key } \cup { MapEntry(key, value) }

\* HashMap::remove
HashMapRemove(map, key) == { e \in map : e.key # key }

\* HashMap::clear
HashMapClear(map) == {}

\* HashMap::get(..).cloned()
HashMapGet(map, key) ==
    IF \E e \in map : e.key = key
    THEN Some((CHOOSE e \in map : e.key = key).value)
    ELSE OptionNone

\* HashMap::len
HashMapLen(map) == Cardinality(map)

(***************************************************************************)
(* InMemorySizeCalculator and the provided methods of SizeCalculator.      *)
(***************************************************************************)
\* InMemorySizeCalculator::new
new_sizes == {}

set_size(map, size) ==
    HashMapInsert(map, SizeKey(size.platform, size.market_id, size.side), size)

remove_size(map, key) == HashMapRemove(map, key)

clear(map) == HashMapClear(map)

len(map) == HashMapLen(map)

get_size(map, key) == HashMapGet(map, key)

\* mutant of SizedLegsFrom: a leg without a computed size is left out
SizedLegsFrom_SkipsUnresolved(map, intent, i, sized_legs) ==
    IF i > Len(intent.legs)
    THEN Some([legs |-> sized_legs, reason |-> intent.reason])
    ELSE LET leg == intent.legs[i]
             computed == get_size(map, from_leg(leg))
         IN  IF computed = OptionNone
             THEN SizedLegsFrom_SkipsUnresolved(map, intent, i + 1, sized_legs)
             ELSE SizedLegsFrom_SkipsUnresolved(map, intent, i + 1,
                      Append(sized_legs, SizedLeg(leg, computed[1])))

\* the loop of get_sized_intent from leg i on: `?` returns None at the first
\* leg without a computed size
SizedLegsFrom(map, intent, i, sized_legs) ==
    IF i > Len(intent.legs)
    THEN Some([legs |-> sized_legs, reason |-> intent.reason])
    ELSE LET leg == intent.legs[i]
             computed == get_size(map, from_leg(leg))
         IN  IF computed = OptionNone
             THEN OptionNone
             ELSE SizedLegsFrom(map, intent, i + 1,
                      Append(sized_legs, SizedLeg(leg, computed[1])))

get_sized_intent(map, intent) == SizedLegsFrom(map, intent, 1, <<>>)

can_size(map, intent) ==
    \A i \in 1..Len(intent.legs) : get_size(map, from_leg(intent.legs[i])) # OptionNone

\* the values chrono::Utc::now() may return, as logical times
NowValues == {2, 3}

\* the ages of the legs that have a computed size (filter_map)
ComputationAges(map, intent, now) ==
    { now - get_size(map, from_leg(intent.legs[i]))[1].computed_at :
        i \in { j \in 1..Len(intent.legs) :
                  get_size(map, from_leg(intent.legs[j])) # OptionNone } }

\* mutant of oldest_computation_age: the youngest computation is reported
oldest_computation_age_Youngest(map, intent, now) ==
    LET ages == ComputationAges(map, intent, now)
    IN  IF ages = {} THEN OptionNone
        ELSE Some(CHOOSE a \in ages : \A b \in ages : a <= b)

\* SizeCalculator::oldest_computation_age: Iterator::max of the ages
oldest_computation_age(map, intent, now) ==
    LET ages == ComputationAges(map, intent, now)
    IN  IF ages = {} THEN OptionNone
        ELSE Some(CHOOSE a \in ages : \A b \in ages : a >= b)

\* mutant of is_valid: an intent without legs counts as valid
is_valid_EmptyIsValid(sized) ==
    \A i \in 1..Len(sized.legs) : sized.legs[i].size > 0

\* SizedIntent::is_valid
is_valid(sized) ==
    /\ Len(sized.legs) # 0
    /\ \A i \in 1..Len(sized.legs) : sized.legs[i].size > 0

(***************************************************************************)
(* rust_decimal::Decimal: the number m * 10^-e.  Decimal's == compares the *)
(* numbers, not their scales, so a value is kept without trailing zeros.   *)
(* Sums, differences and products are exact; so is a division by 100.      *)
(***************************************************************************)
Pow10(n) == IF n = 0 THEN 1 ELSE 10 * Pow10(n - 1)

Normalized(d) ==
    IF d.e > 0 /\ d.m % 10 = 0
    THEN Normalized([m |-> d.m \div 10, e |-> d.e - 1])
    ELSE d

\* dec!(..): Dec(958, 3) is 0.958
Dec(m, e) == Normalized([m |-> m, e |-> e])

DecScale(a, b) == IF a.e >= b.e THEN a.e ELSE b.e

DecAdd(a, b) ==
    Dec(a.m * Pow10(DecScale(a, b) - a.e) + b.m * Pow10(DecScale(a, b) - b.e),
        DecScale(a, b))

DecSub(a, b) ==
    Dec(a.m * Pow10(DecScale(a, b) - a.e) - b.m * Pow10(DecScale(a, b) - b.e),
        DecScale(a, b))

DecMul(a, b) == Dec(a.m * b.m, a.e + b.e)

\* base * percent / dec!(100.0)
PercentOf(base, percent) ==
    LET product == DecMul(base, percent)
    IN  Dec(product.m, product.e + 2)

(***************************************************************************)
(* The fee model (src/src/strategy/fees.rs).                               *)
(***************************************************************************)
\* mutant of kalshi: the 7% is charged on the trade size, not on the profit
kalshi_SizeBased ==
    [platform |-> "Kalshi", maker_fee_percent |-> Dec(0, 1),
     taker_fee_percent |-> Dec(70, 1), profit_based |-> FALSE]

\* PlatformFees::kalshi
kalshi ==
    [platform |-> "Kalshi", maker_fee_percent |-> Dec(0, 1),
     taker_fee_percent |-> Dec(70, 1), profit_based |-> TRUE]

\* PlatformFees::polymarket
polymarket ==
    [platform |-> "Polymarket", maker_fee_percent |-> Dec(0, 1),
     taker_fee_percent |-> Dec(0, 1), profit_based |-> FALSE]

\* PlatformFees::for_platform
for_platform(platform) == IF platform = "Kalshi" THEN kalshi ELSE polymarket

\* FeeCalculator::entry_cost
entry_cost(platform, price, side, size) ==
    LET fees == for_platform(platform)
        base == DecMul(price, size)
        fee == PercentOf(base, fees.taker_fee_percent)
    IN  IF side = "Buy"
        THEN IF fees.profit_based THEN base ELSE DecAdd(base, fee)
        ELSE IF fees.profit_based THEN base ELSE DecSub(base, fee)

\* FeeCalculator::exit_value
exit_value(platform, entry_price, side, size) ==
    LET fees == for_platform(platform)
    IN  IF side = "Buy"
        THEN LET profit_per_contract == DecSub(Dec(10, 1), entry_price)
                 fee_per_contract == PercentOf(profit_per_contract, fees.taker_fee_percent)
             IN  IF fees.profit_based THEN DecSub(Dec(10, 1), fee_per_contract)
                 ELSE Dec(10, 1)
        ELSE LET profit_per_contract == entry_price
                 fee_per_contract == PercentOf(profit_per_contract, fees.taker_fee_percent)
             IN  IF fees.profit_based THEN DecSub(entry_price, fee_per_contract)
                 ELSE entry_price

\* FeeCalculator::net_profit
net_profit(platform, entry_price, side, size) ==
    LET entry == entry_cost(platform, entry_price, side, size)
        exit == DecMul(exit_value(platform, entry_price, side, size), size)
    IN  IF side = "Buy" THEN DecSub(exit, entry) ELSE DecSub(entry, exit)

\* FeeCalculator::arbitrage_profit
arbitrage_profit(buy_platform, buy_price, sell_platform, sell_price, size) ==
    LET buy_cost == entry_cost(buy_platform, buy_price, "Buy", size)
        sell_proceeds == entry_cost(sell_platform, sell_price, "Sell", size)
        buy_exit_value == DecMul(exit_value(buy_platform, buy_price, "Buy", size), size)
        sell_exit_value == Dec(0, 0)
    IN  DecSub(DecSub(DecAdd(buy_exit_value, sell_proceeds), buy_cost), sell_exit_value)

\* the prices and sizes the fee functions are called with
FeePrices ==
    { Dec(0, 0), Dec(40, 2), Dec(45, 2), Dec(50, 2), Dec(52, 2), Dec(10, 1),
      Dec(15, 1), Dec(-25, 2) }

FeeSizes == { Dec(0, 0), Dec(1, 0), Dec(25, 0), Dec(1000, 1), Dec(5, 1) }

FeeInputs ==
    [platform : Platforms, price : FeePrices, side : Sides, size : FeeSizes]

(***************************************************************************)
(* The subscribed-market list of PolymarketClient (src/src/polymarket/     *)
(* client.rs).                                                             *)
(***************************************************************************)
\* the ids a caller names, and the slices it can pass
MarketIds == {"a1", "a2", "a3", "a4"}
IdSlices == SeqsUpTo(MarketIds, MaxIds)

Contains(list, id) == \E i \in 1..Len(list) : list[i] = id

\* mutant of subscribe: every id is pushed
subscribe_AlwaysPushes(markets, asset_ids) ==
    IF asset_ids = <<>> THEN markets
    ELSE subscribe_AlwaysPushes(Append(markets, Head(asset_ids)), Tail(asset_ids))

\* for id in asset_ids { if !markets.contains(id) { markets.push(id.clone()) } }
subscribe(markets, asset_ids) ==
    IF asset_ids = <<>> THEN markets
    ELSE subscribe(IF ~Contains(markets, Head(asset_ids))
                   THEN Append(markets, Head(asset_ids))
                   ELSE markets,
                   Tail(asset_ids))

\* markets.retain(|m| !asset_ids.contains(m))
unsubscribe(markets, asset_ids) ==
    LET Retained(m) == ~Contains(asset_ids, m)
    IN  SelectSeq(markets, Retained)

(***************************************************************************)
(* State.                                                                  *)
(***************************************************************************)
VARIABLES
    callPc,             \* where the caller of connect_and_subscribe is
    is_connected,       \* the Arc<AtomicBool> liveness flag
    subscribed_assets,  \* PolymarketWebSocketClient::subscribed_assets
    chan,               \* the buffer of the output channel (event_sender side)
    rxOpen,             \* the consumer still holds the Receiver
    delivered,          \* what the consumer has taken out of the channel, in order
    recvPc,             \* the message handling task: none / select / sending / exited
    pending,            \* the event the message handling task is sending, and from where
    nFrames,            \* items the message handling task has read from the transport
    nText,              \* text frames among them
    hbPc,               \* the heartbeat task: none / waiting / exited
    hbTicks,            \* ticks after which the heartbeat task went on looping
    inText,             \* SpecParse: the text frame to normalise
    outEvent,           \* SpecParse: the event it was normalised to
    sizes,              \* InMemorySizeCalculator::sizes
    lastSet,            \* history: per key, the entry of the last set_size still in force
    updater,            \* the background updater: idle, or computing the entry it will set
    lastCall,           \* the most recent call on the size calculator and what it returned
    goIntent,           \* SpecSize: the TradeIntent of the Decision::Go to be sized
    feeIn,              \* SpecFees: the arguments of the fee functions
    feeOut,             \* SpecFees: the fee function called last and its value
    ws_client,          \* PolymarketClient::ws_client is Some (Spec: the caller owns the client)
    event_sender,       \* PolymarketClient::event_sender is Some
    disconnected,       \* history: PolymarketClient::disconnect has returned
    subscribed_markets, \* PolymarketClient::subscribed_markets
    older               \* SpecReconnect: the two tasks of the connection before the newest

wsVars ==
    <<callPc, is_connected, subscribed_assets, chan, rxOpen, delivered,
      recvPc, pending, nFrames, nText, hbPc, hbTicks>>
parseVars == <<inText, outEvent>>
sizeVars == <<sizes, lastSet, updater, lastCall, goIntent>>
feeVars == <<feeIn, feeOut>>
strategyVars == <<sizeVars, feeVars>>
clientVars == <<ws_client, event_sender, disconnected, subscribed_markets>>
vars == <<wsVars, parseVars, strategyVars, clientVars, older>>

None == "<none>"
NoPending == [site |-> "none"]
NoText == PlainText("<no text>")
NoEvent == [type |-> "<no event>"]
UpdaterIdle == [pc |-> "idle"]
NoCall == [op |-> "<no call>"]
NoIntent == [legs |-> <<>>, reason |-> "<no intent>"]
NoFeeInput == [platform |-> "<no input>"]
NoFeeResult == [fn |-> "<no result>"]
NoOlder == [recvPc |-> "none", pending |-> NoPending, hbPc |-> "none"]

(***************************************************************************)
(* The frames the transport delivers in Spec: one text of every kind the   *)
(* receive loop tells apart, and the control frames.                       *)
(***************************************************************************)
BookText ==
    Text("object", "book", "a1", "m1", Absent, Absent, Absent, Absent,
         [st |-> "array", items |-> << [price |-> "0.50", size |-> "100"] >>],
         [st |-> "array", items |-> << [price |-> "0.52", size |-> "abc"] >>], NoArray)
BookTextNoAsset ==
    Text("object", "book", Absent, "m1", Absent, Absent, Absent, Absent,
         [st |-> "array", items |-> <<>>], [st |-> "array", items |-> <<>>], NoArray)
TradeText ==
    Text("object", "trade", "a1", Absent, "t1", "0.52", "25", "buy",
         NoArray, NoArray, NoArray)
LastTradePriceText ==
    Text("object", "last_trade_price", "a1", Absent, Absent, "0.52", Absent, Absent,
         NoArray, NoArray, NoArray)
UnknownText ==
    Text("object", "tick_size_change", "a1", "m1", Absent, Absent, Absent, Absent,
         NoArray, NoArray, NoArray)

WireTexts ==
    { PlainText("PONG"), PlainText("pong"), PlainText("garbage"),
      BookText, BookTextNoAsset, TradeText, LastTradePriceText, UnknownText }

\* the frame an event of the channel was made from (the call itself for Connected)
CallOrigin == [kind |-> "call"]
TextFrame(text) == [kind |-> "text", text |-> text]
CloseFrame(reason) == [kind |-> "close", reason |-> reason]
ErrorItem(msg) == [kind |-> "error", msg |-> msg]
EndOfStream == [kind |-> "end"]

CloseReasons == {None, "going away"}
TransportErrors == {"connection reset"}
AssetIdLists == { <<>>, <<"a1">> }

(***************************************************************************)
(* The bounded mpsc channel.  An entry carries the event and, as history,  *)
(* the number and the content of the frame it was made from.               *)
(***************************************************************************)
Entry(event, src, frame) == [ev |-> event, src |-> src, frame |-> frame]

\* mutant of SendCompletes: the send never waits for a slot
SendCompletes_NoWait(buffer, open) == TRUE

\* Sender::send(..).await returns: a slot is free, or the Receiver is gone
SendCompletes(buffer, open) == ~open \/ Len(buffer) < Capacity

\* mutant of Enqueue: the event is put in front of the buffered ones
Enqueue_Front(buffer, entry) == <<entry>> \o buffer

\* the buffer after a send that returned Ok
Enqueue(buffer, entry) == Append(buffer, entry)

\* the buffer after a send: Err(SendError) leaves nothing behind
AfterSend(buffer, open, entry) == IF open THEN Enqueue(buffer, entry) ELSE buffer

\* InMemorySizeCalculator::new(), no call made, the updater idle
InitSize ==
    /\ sizes = new_sizes
    /\ lastSet = [k \in SizeKeys |-> OptionNone]
    /\ updater = UpdaterIdle
    /\ lastCall = NoCall

\* no fee function is called
InitFeesUnused ==
    /\ feeIn = NoFeeInput
    /\ feeOut = NoFeeResult

\* the caller holds a PolymarketWebSocketClient of its own
InitClientOwned ==
    /\ ws_client = TRUE
    /\ event_sender = FALSE
    /\ disconnected = FALSE
    /\ subscribed_markets = <<>>
    /\ older = NoOlder

\* every part of a new connection: no call made, nothing spawned, nothing sent
InitConnection ==
    /\ callPc = "idle"
    /\ is_connected = FALSE
    /\ subscribed_assets = <<>>
    /\ chan = <<>>
    /\ rxOpen = TRUE
    /\ delivered = <<>>
    /\ recvPc = "none"
    /\ pending = NoPending
    /\ nFrames = 0
    /\ nText = 0
    /\ hbPc = "none"
    /\ hbTicks = 0
    /\ inText = NoText
    /\ outEvent = NoEvent

Init ==
    /\ callPc = "idle"
    /\ is_connected = FALSE
    /\ subscribed_assets = <<>>
    /\ chan = <<>>
    /\ rxOpen = TRUE
    /\ delivered = <<>>
    /\ recvPc = "none"
    /\ pending = NoPending
    /\ nFrames = 0
    /\ nText = 0
    /\ hbPc = "none"
    /\ hbTicks = 0
    /\ inText = NoText
    /\ outEvent = NoEvent
    /\ InitSize
    /\ goIntent = NoIntent
    /\ InitFeesUnused
    /\ InitClientOwned

(***************************************************************************)
(* connect_and_subscribe, the caller's side.                               *)
(***************************************************************************)
\* the call is made on a new client
Call ==
    /\ callPc = "idle"
    /\ callPc' = "connecting"
    /\ UNCHANGED <<is_connected, subscribed_assets, chan, rxOpen, delivered, recvPc,
                   pending, nFrames, nText, hbPc, hbTicks, parseVars, strategyVars, clientVars, older>>

\* connect_async(..).await fails: map_err(..)? returns the error
ConnectFails ==
    /\ callPc = "connecting"
    /\ callPc' = "err"
    /\ UNCHANGED <<is_connected, subscribed_assets, chan, rxOpen, delivered, recvPc,
                   pending, nFrames, nText, hbPc, hbTicks, parseVars, strategyVars, clientVars, older>>

\* mutant of ConnectEstablished: the flag is left as it was
ConnectEstablished_FlagNotSet ==
    /\ callPc = "connecting"
    /\ \E asset_ids \in AssetIdLists : subscribed_assets' = asset_ids
    /\ callPc' = "sendingConnected"
    /\ UNCHANGED <<is_connected, chan, rxOpen, delivered, recvPc, pending, nFrames, nText,
                   hbPc, hbTicks, parseVars, strategyVars, clientVars, older>>

\* connect_async(..).await succeeds: the flag and the asset list are stored
ConnectEstablished ==
    /\ callPc = "connecting"
    /\ \E asset_ids \in AssetIdLists : subscribed_assets' = asset_ids
    /\ is_connected' = TRUE
    /\ callPc' = "sendingConnected"
    /\ UNCHANGED <<chan, rxOpen, delivered, recvPc, pending, nFrames, nText,
                   hbPc, hbTicks, parseVars, strategyVars, clientVars, older>>

\* mutant of ConnectedSent: the call goes on without sending Connected
ConnectedSent_NotSent ==
    /\ callPc = "sendingConnected"
    /\ callPc' = "subscribing"
    /\ UNCHANGED <<is_connected, subscribed_assets, chan, rxOpen, delivered, recvPc,
                   pending, nFrames, nText, hbPc, hbTicks, parseVars, strategyVars, clientVars, older>>

\* let _ = event_sender.send(ConnectionStatus{Connected}).await
ConnectedSent ==
    /\ callPc = "sendingConnected"
    /\ SendCompletes(chan, rxOpen)
    /\ chan' = AfterSend(chan, rxOpen,
                         Entry(ConnectionStatusEvent(Connected), 0, CallOrigin))
    /\ callPc' = "subscribing"
    /\ UNCHANGED <<is_connected, subscribed_assets, rxOpen, delivered, recvPc,
                   pending, nFrames, nText, hbPc, hbTicks, parseVars, strategyVars, clientVars, older>>

\* serde_json::to_string(..)? or write.send(..).await? fails
SubscribeFails ==
    /\ callPc = "subscribing"
    /\ callPc' = "err"
    /\ UNCHANGED <<is_connected, subscribed_assets, chan, rxOpen, delivered, recvPc,
                   pending, nFrames, nText, hbPc, hbTicks, parseVars, strategyVars, clientVars, older>>

\* the subscription is sent, both tasks are spawned, Ok(()) is returned
SubscribeSent ==
    /\ callPc = "subscribing"
    /\ hbPc' = "waiting"
    /\ recvPc' = "select"
    /\ callPc' = "ok"
    /\ UNCHANGED <<is_connected, subscribed_assets, chan, rxOpen, delivered,
                   pending, nFrames, nText, hbTicks, parseVars, strategyVars, clientVars, older>>

(***************************************************************************)
(* The message handling task.                                              *)
(***************************************************************************)
\* what the task sends for a text frame, and from which send site
TextOutcome(text) ==
    IF IsPongText(text) THEN [event |-> HeartbeatEvent, site |-> "pong"]
    ELSE IF parse_message(text).ok
         THEN [event |-> parse_message(text).event, site |-> "parsed"]
         ELSE [event |-> RawEvent(text), site |-> "raw"]

\* mutant of FlagAfterTerminal: the terminal arms leave the flag set
FlagAfterTerminal_Set == TRUE

\* the value stored into the flag by the Close, Err and None arms
FlagAfterTerminal == FALSE

\* mutant of ContinuesAfterSend: the terminal arms have no break
ContinuesAfterSend_NoBreak(site, sent) ==
    CASE site = "pong" -> TRUE
      [] site = "parsed" -> sent
      [] site = "raw" -> TRUE
      [] site = "terminal" -> TRUE

\* mutant of ContinuesAfterSend: the Err arm of the parse breaks the loop
ContinuesAfterSend_ErrBreaks(site, sent) ==
    CASE site = "pong" -> TRUE
      [] site = "parsed" -> sent
      [] site = "raw" -> FALSE
      [] site = "terminal" -> FALSE

\* whether the loop goes on after a send from `site` that returned `sent`
ContinuesAfterSend(site, sent) ==
    CASE site = "pong" -> TRUE
      [] site = "parsed" -> sent
      [] site = "raw" -> TRUE
      [] site = "terminal" -> FALSE

\* the arm starts a send; consumerGone records, as history, whether the
\* Receiver was already dropped when the frame was read
BeginSend(event, site, frame) ==
    /\ pending' = [site |-> site, entry |-> Entry(event, nFrames + 1, frame),
                   consumerGone |-> ~rxOpen]
    /\ recvPc' = "sending"
    /\ nFrames' = nFrames + 1

\* Some(Ok(Message::Text(text))), text is PONG or pong
RecvTextPong ==
    /\ recvPc = "select" /\ nFrames < MaxFrames
    /\ \E text \in WireTexts :
          /\ TextOutcome(text).site = "pong"
          /\ BeginSend(TextOutcome(text).event, "pong", TextFrame(text))
    /\ nText' = nText + 1
    /\ UNCHANGED <<callPc, is_connected, subscribed_assets, chan, rxOpen, delivered,
                   hbPc, hbTicks, parseVars, strategyVars, clientVars, older>>

\* Some(Ok(Message::Text(text))), parse_message returns Ok(event)
RecvTextParsed ==
    /\ recvPc = "select" /\ nFrames < MaxFrames
    /\ \E text \in WireTexts :
          /\ TextOutcome(text).site = "parsed"
          /\ BeginSend(TextOutcome(text).event, "parsed", TextFrame(text))
    /\ nText' = nText + 1
    /\ UNCHANGED <<callPc, is_connected, subscribed_assets, chan, rxOpen, delivered,
                   hbPc, hbTicks, parseVars, strategyVars, clientVars, older>>

\* Some(Ok(Message::Text(text))), parse_message returns Err(e)
RecvTextUnparsed ==
    /\ recvPc = "select" /\ nFrames < MaxFrames
    /\ \E text \in WireTexts :
          /\ TextOutcome(text).site = "raw"
          /\ BeginSend(TextOutcome(text).event, "raw", TextFrame(text))
    /\ nText' = nText + 1
    /\ UNCHANGED <<callPc, is_connected, subscribed_assets, chan, rxOpen, delivered,
                   hbPc, hbTicks, parseVars, strategyVars, clientVars, older>>

\* Some(Ok(Message::Ping(_))), Some(Ok(Message::Pong(_))) and the `_` arm
RecvControlFrame ==
    /\ recvPc = "select" /\ nFrames < MaxFrames
    /\ \E kind \in {"ping", "pong", "other"} : nFrames' = nFrames + 1
    /\ UNCHANGED <<callPc, is_connected, subscribed_assets, chan, rxOpen, delivered,
                   recvPc, pending, nText, hbPc, hbTicks, parseVars, strategyVars, clientVars, older>>

\* Some(Ok(Message::Close(frame)))
RecvClose ==
    /\ recvPc = "select"
    /\ is_connected' = FlagAfterTerminal
    /\ \E reason \in CloseReasons :
          BeginSend(ConnectionStatusEvent(Disconnected(reason)), "terminal",
                    CloseFrame(reason))
    /\ UNCHANGED <<callPc, subscribed_assets, chan, rxOpen, delivered, nText,
                   hbPc, hbTicks, parseVars, strategyVars, clientVars, older>>

\* Some(Err(e))
RecvError ==
    /\ recvPc = "select"
    /\ is_connected' = FlagAfterTerminal
    /\ \E e \in TransportErrors :
          BeginSend(ConnectionStatusEvent(Error(e)), "terminal", ErrorItem(e))
    /\ UNCHANGED <<callPc, subscribed_assets, chan, rxOpen, delivered, nText,
                   hbPc, hbTicks, parseVars, strategyVars, clientVars, older>>

\* None: the stream ended
RecvEnd ==
    /\ recvPc = "select"
    /\ is_connected' = FlagAfterTerminal
    /\ BeginSend(ConnectionStatusEvent(Disconnected(None)), "terminal", EndOfStream)
    /\ UNCHANGED <<callPc, subscribed_assets, chan, rxOpen, delivered, nText,
                   hbPc, hbTicks, parseVars, strategyVars, clientVars, older>>

\* ping_interval.tick(): nothing is done
RecvPingTick ==
    /\ recvPc = "select"
    /\ UNCHANGED vars

\* event_sender_clone.send(..).await returns; the loop continues or breaks,
\* and leaving the task drops heartbeat_tx
SendReturns ==
    /\ recvPc = "sending"
    /\ SendCompletes(chan, rxOpen)
    /\ chan' = AfterSend(chan, rxOpen, pending.entry)
    /\ recvPc' = IF ContinuesAfterSend(pending.site, rxOpen) THEN "select" ELSE "exited"
    /\ pending' = NoPending
    /\ UNCHANGED <<callPc, is_connected, subscribed_assets, rxOpen, delivered,
                   nFrames, nText, hbPc, hbTicks, parseVars, strategyVars, clientVars, older>>

(***************************************************************************)
(* The heartbeat task.                                                     *)
(***************************************************************************)
\* mutant of HeartbeatBreaks: the tick does not look at the flag
HeartbeatBreaks_Never(flag) == FALSE

\* !is_connected_heartbeat.load(SeqCst)
HeartbeatBreaks(flag) == ~flag

\* heartbeat_tx was dropped, so heartbeat_rx.recv() returns None
HeartbeatTxDropped == recvPc = "exited"

\* interval.tick()
HeartbeatTick ==
    /\ hbPc = "waiting"
    /\ IF HeartbeatBreaks(is_connected)
       THEN hbPc' = "exited" /\ hbTicks' = hbTicks
       ELSE hbTicks < MaxTicks /\ hbTicks' = hbTicks + 1 /\ hbPc' = hbPc
    /\ UNCHANGED <<callPc, is_connected, subscribed_assets, chan, rxOpen, delivered,
                   recvPc, pending, nFrames, nText, parseVars, strategyVars, clientVars, older>>

\* mutant of HeartbeatShutdown: the heartbeat task clears the flag as it leaves
HeartbeatShutdown_StoresFalse ==
    /\ hbPc = "waiting"
    /\ HeartbeatTxDropped
    /\ hbPc' = "exited"
    /\ is_connected' = FALSE
    /\ UNCHANGED <<callPc, subscribed_assets, chan, rxOpen, delivered,
                   recvPc, pending, nFrames, nText, hbTicks, parseVars, strategyVars, clientVars, older>>

\* heartbeat_rx.recv()
HeartbeatShutdown ==
    /\ hbPc = "waiting"
    /\ HeartbeatTxDropped
    /\ hbPc' = "exited"
    /\ UNCHANGED <<callPc, is_connected, subscribed_assets, chan, rxOpen, delivered,
                   recvPc, pending, nFrames, nText, hbTicks, parseVars, strategyVars, clientVars, older>>

(***************************************************************************)
(* The consumer of the output channel.                                     *)
(***************************************************************************)
\* rx.recv().await
ConsumerRecv ==
    /\ rxOpen /\ chan # <<>>
    /\ delivered' = Append(delivered, Head(chan))
    /\ chan' = Tail(chan)
    /\ UNCHANGED <<callPc, is_connected, subscribed_assets, rxOpen, recvPc, pending,
                   nFrames, nText, hbPc, hbTicks, parseVars, strategyVars, clientVars, older>>

\* the Receiver is dropped: the channel closes and its buffer is discarded
ConsumerDrop ==
    /\ rxOpen
    /\ rxOpen' = FALSE
    /\ chan' = <<>>
    /\ UNCHANGED <<callPc, is_connected, subscribed_assets, delivered, recvPc, pending,
                   nFrames, nText, hbPc, hbTicks, parseVars, strategyVars, clientVars, older>>

\* the steps of connect_and_subscribe after the call, of the two tasks and
\* of the consumer
ConnectionSteps ==
    \/ ConnectFails \/ ConnectEstablished \/ ConnectedSent
    \/ SubscribeFails \/ SubscribeSent
    \/ RecvTextPong \/ RecvTextParsed \/ RecvTextUnparsed \/ RecvControlFrame
    \/ RecvClose \/ RecvError \/ RecvEnd \/ RecvPingTick \/ SendReturns
    \/ HeartbeatTick \/ HeartbeatShutdown
    \/ ConsumerRecv \/ ConsumerDrop

Next ==
    \/ Call \/ ConnectFails \/ ConnectEstablished \/ ConnectedSent
    \/ SubscribeFails \/ SubscribeSent
    \/ RecvTextPong \/ RecvTextParsed \/ RecvTextUnparsed \/ RecvControlFrame
    \/ RecvClose \/ RecvError \/ RecvEnd \/ RecvPingTick \/ SendReturns
    \/ HeartbeatTick \/ HeartbeatShutdown
    \/ ConsumerRecv \/ ConsumerDrop

Spec == Init /\ [][Next]_vars

(***************************************************************************)
(* SpecParse: the normalisation of one text frame, for every text of the   *)
(* bounded domain.  The steps are the three arms of the Text case of the   *)
(* message handling task, applied to inText.                               *)
(***************************************************************************)
InitParse ==
    /\ callPc = "idle"
    /\ is_connected = FALSE
    /\ subscribed_assets = <<>>
    /\ chan = <<>>
    /\ rxOpen = TRUE
    /\ delivered = <<>>
    /\ recvPc = "none"
    /\ pending = NoPending
    /\ nFrames = 0
    /\ nText = 0
    /\ hbPc = "none"
    /\ hbTicks = 0
    /\ inText \in TextDomain
    /\ outEvent = NoEvent
    /\ InitSize
    /\ goIntent = NoIntent
    /\ InitFeesUnused
    /\ InitClientOwned

NormalizePong ==
    /\ outEvent = NoEvent
    /\ TextOutcome(inText).site = "pong"
    /\ outEvent' = TextOutcome(inText).event
    /\ UNCHANGED <<inText, wsVars, strategyVars, clientVars, older>>

NormalizeParsed ==
    /\ outEvent = NoEvent
    /\ TextOutcome(inText).site = "parsed"
    /\ outEvent' = TextOutcome(inText).event
    /\ UNCHANGED <<inText, wsVars, strategyVars, clientVars, older>>

NormalizeUnparsed ==
    /\ outEvent = NoEvent
    /\ TextOutcome(inText).site = "raw"
    /\ outEvent' = TextOutcome(inText).event
    /\ UNCHANGED <<inText, wsVars, strategyVars, clientVars, older>>

NextParse == NormalizePong \/ NormalizeParsed \/ NormalizeUnparsed

SpecParse == InitParse /\ [][NextParse]_vars

(***************************************************************************)
(* SpecSize: the size cache.  The background updater computes an entry and *)
(* publishes it with set_size, or calls remove_size or clear; the hot path *)
(* calls get_size, get_sized_intent, can_size, is_valid and len at any     *)
(* time, also while a computation is under way, for one intent out of the  *)
(* bounded set.  set_size, remove_size and clear take &mut self and the    *)
(* queries &self, so every call is one step.                               *)
(***************************************************************************)
InitSizeCache ==
    /\ InitConnection
    /\ InitSize
    /\ goIntent \in TradeIntents
    /\ InitFeesUnused
    /\ InitClientOwned

\* the updater starts to compute the entry it will publish
UpdaterComputes ==
    /\ updater = UpdaterIdle
    /\ \E size \in ComputedSizes : updater' = [pc |-> "computing", size |-> size]
    /\ UNCHANGED <<sizes, lastSet, lastCall, goIntent, feeVars, wsVars, parseVars, clientVars, older>>

\* InMemorySizeCalculator::set_size
CallSetSize ==
    /\ updater.pc = "computing"
    /\ sizes' = set_size(sizes, updater.size)
    /\ lastSet' = [lastSet EXCEPT ![from_leg(updater.size)] = Some(updater.size)]
    /\ lastCall' = [op |-> "set_size", key |-> from_leg(updater.size)]
    /\ updater' = UpdaterIdle
    /\ UNCHANGED <<goIntent, feeVars, wsVars, parseVars, clientVars, older>>

\* InMemorySizeCalculator::remove_size
CallRemoveSize ==
    /\ updater = UpdaterIdle
    /\ \E key \in SizeKeys :
          /\ sizes' = remove_size(sizes, key)
          /\ lastSet' = [lastSet EXCEPT ![key] = OptionNone]
          /\ lastCall' = [op |-> "remove_size", key |-> key]
    /\ UNCHANGED <<updater, goIntent, feeVars, wsVars, parseVars, clientVars, older>>

\* InMemorySizeCalculator::clear
CallClear ==
    /\ updater = UpdaterIdle
    /\ sizes' = clear(sizes)
    /\ lastSet' = [k \in SizeKeys |-> OptionNone]
    /\ lastCall' = [op |-> "clear"]
    /\ UNCHANGED <<updater, goIntent, feeVars, wsVars, parseVars, clientVars, older>>

\* SizeCalculator::get_size for one key
GetSizeOf(key) ==
    /\ lastCall' = [op |-> "get_size", key |-> key, ret |-> get_size(sizes, key)]
    /\ UNCHANGED <<sizes, lastSet, updater, goIntent, feeVars, wsVars, parseVars, clientVars, older>>

CallGetSize == \E key \in SizeKeys : GetSizeOf(key)

\* SizeCalculator::get_sized_intent
CallGetSizedIntent ==
    /\ lastCall' = [op |-> "get_sized_intent", intent |-> goIntent,
                    ret |-> get_sized_intent(sizes, goIntent)]
    /\ UNCHANGED <<sizes, lastSet, updater, goIntent, feeVars, wsVars, parseVars, clientVars, older>>

\* SizeCalculator::can_size
CallCanSize ==
    /\ lastCall' = [op |-> "can_size", intent |-> goIntent,
                    ret |-> can_size(sizes, goIntent)]
    /\ UNCHANGED <<sizes, lastSet, updater, goIntent, feeVars, wsVars, parseVars, clientVars, older>>

\* SizedIntent::is_valid on the intent get_sized_intent has just returned
CallIsValid ==
    /\ lastCall.op = "get_sized_intent"
    /\ lastCall.ret # OptionNone
    /\ lastCall' = [op |-> "is_valid", intent |-> lastCall.intent,
                    sized |-> lastCall.ret[1], ret |-> is_valid(lastCall.ret[1])]
    /\ UNCHANGED <<sizes, lastSet, updater, goIntent, feeVars, wsVars, parseVars, clientVars, older>>

\* SizeCalculator::oldest_computation_age
CallOldestComputationAge ==
    /\ \E now \in NowValues :
          lastCall' = [op |-> "oldest_computation_age", intent |-> goIntent, now |-> now,
                       ret |-> oldest_computation_age(sizes, goIntent, now)]
    /\ UNCHANGED <<sizes, lastSet, updater, goIntent, feeVars, wsVars, parseVars, clientVars, older>>

\* InMemorySizeCalculator::len
CallLen ==
    /\ lastCall' = [op |-> "len", ret |-> len(sizes)]
    /\ UNCHANGED <<sizes, lastSet, updater, goIntent, feeVars, wsVars, parseVars, clientVars, older>>

NextSizeCache ==
    \/ UpdaterComputes \/ CallSetSize \/ CallRemoveSize \/ CallClear
    \/ CallGetSize \/ CallGetSizedIntent \/ CallCanSize \/ CallIsValid \/ CallLen
    \/ CallOldestComputationAge

SpecSize == InitSizeCache /\ [][NextSizeCache]_vars

(***************************************************************************)
(* SpecFees: the fee functions, called on every input of the bounded set.  *)
(***************************************************************************)
InitFees ==
    /\ InitConnection
    /\ InitSize
    /\ goIntent = NoIntent
    /\ InitClientOwned
    /\ feeIn \in FeeInputs
    /\ feeOut = NoFeeResult

CallEntryCost ==
    /\ feeOut' = [fn |-> "entry_cost",
                  value |-> entry_cost(feeIn.platform, feeIn.price, feeIn.side, feeIn.size)]
    /\ UNCHANGED <<feeIn, sizeVars, wsVars, parseVars, clientVars, older>>

CallExitValue ==
    /\ feeOut' = [fn |-> "exit_value",
                  value |-> exit_value(feeIn.platform, feeIn.price, feeIn.side, feeIn.size)]
    /\ UNCHANGED <<feeIn, sizeVars, wsVars, parseVars, clientVars, older>>

CallNetProfit ==
    /\ feeOut' = [fn |-> "net_profit",
                  value |-> net_profit(feeIn.platform, feeIn.price, feeIn.side, feeIn.size)]
    /\ UNCHANGED <<feeIn, sizeVars, wsVars, parseVars, clientVars, older>>

\* FeeCalculator::arbitrage_profit: feeIn is the buy leg, the sell leg is
\* any venue and price
CallArbitrageProfit ==
    /\ \E sell_platform \in Platforms, sell_price \in FeePrices :
          feeOut' = [fn |-> "arbitrage_profit",
                     sell_platform |-> sell_platform, sell_price |-> sell_price,
                     value |-> arbitrage_profit(feeIn.platform, feeIn.price,
                                                sell_platform, sell_price, feeIn.size)]
    /\ UNCHANGED <<feeIn, sizeVars, wsVars, parseVars, clientVars, older>>

NextFees == CallEntryCost \/ CallExitValue \/ CallNetProfit \/ CallArbitrageProfit

SpecFees == InitFees /\ [][NextFees]_vars

(***************************************************************************)
(* SpecClient: PolymarketClient (src/src/polymarket/client.rs) around one  *)
(* connection: connect creates the WebSocket client, start calls           *)
(* connect_and_subscribe on it, disconnect drops it.  The two spawned      *)
(* tasks own their clones of the flag and of the sender and the read half  *)
(* of the stream, so dropping the client takes nothing away from them.     *)
(* One start and one disconnect are made.                                  *)
(***************************************************************************)
\* PolymarketClient::new
InitClient ==
    /\ InitConnection
    /\ InitSize
    /\ goIntent = NoIntent
    /\ InitFeesUnused
    /\ ws_client = FALSE
    /\ event_sender = FALSE
    /\ disconnected = FALSE
    /\ subscribed_markets = <<>>
    /\ older = NoOlder

\* MarketClient::connect
ClientConnect ==
    /\ callPc = "idle" /\ ~disconnected
    /\ ws_client' = TRUE
    /\ UNCHANGED <<event_sender, disconnected, subscribed_markets, wsVars, parseVars,
                   strategyVars, older>>

\* MarketClient::start, up to the call of connect_and_subscribe
ClientStart ==
    /\ callPc = "idle" /\ ~disconnected
    /\ ws_client
    /\ event_sender' = TRUE
    /\ callPc' = "connecting"
    /\ UNCHANGED <<ws_client, disconnected, is_connected, subscribed_assets, chan, rxOpen,
                   delivered, recvPc, pending, nFrames, nText, hbPc, hbTicks,
                   subscribed_markets, parseVars, strategyVars, older>>

\* MarketClient::start without a WebSocket client: Ok(()) and no connection
ClientStartNoClient ==
    /\ callPc = "idle" /\ ~disconnected
    /\ ~ws_client
    /\ event_sender' = TRUE
    /\ callPc' = "started"
    /\ UNCHANGED <<ws_client, disconnected, is_connected, subscribed_assets, chan, rxOpen,
                   delivered, recvPc, pending, nFrames, nText, hbPc, hbTicks,
                   subscribed_markets, parseVars, strategyVars, older>>

\* MarketClient::disconnect
ClientDisconnect ==
    /\ callPc \in {"idle", "ok", "err", "started"} /\ ~disconnected
    /\ ws_client' = FALSE
    /\ event_sender' = FALSE
    /\ disconnected' = TRUE
    /\ UNCHANGED <<subscribed_markets, wsVars, parseVars, strategyVars, older>>

\* MarketClient::is_connected
ClientIsConnected == ws_client /\ is_connected

\* a call that takes &mut self starts only when no other call is in progress
NoCallInProgress == callPc \in {"idle", "ok", "err", "started"}

\* MarketClient::subscribe
ClientSubscribeOf(asset_ids) ==
    /\ NoCallInProgress
    /\ subscribed_markets' = subscribe(subscribed_markets, asset_ids)
    /\ UNCHANGED <<ws_client, event_sender, disconnected, wsVars, parseVars,
                   strategyVars, older>>

\* MarketClient::unsubscribe
ClientUnsubscribeOf(asset_ids) ==
    /\ NoCallInProgress
    /\ subscribed_markets' = unsubscribe(subscribed_markets, asset_ids)
    /\ UNCHANGED <<ws_client, event_sender, disconnected, wsVars, parseVars,
                   strategyVars, older>>

\* connect_and_subscribe(markets, sender) as start calls it: connect_async
\* succeeds, the flag and the clone of the market list are stored
ClientConnectEstablished ==
    /\ callPc = "connecting"
    /\ subscribed_assets' = subscribed_markets
    /\ is_connected' = TRUE
    /\ callPc' = "sendingConnected"
    /\ UNCHANGED <<chan, rxOpen, delivered, recvPc, pending, nFrames, nText,
                   hbPc, hbTicks, parseVars, strategyVars, clientVars, older>>

\* the calls of SpecClient name the one asset a1
NextClient ==
    \/ ClientConnect \/ ClientStart \/ ClientStartNoClient \/ ClientDisconnect
    \/ ClientSubscribeOf(<<"a1">>) \/ ClientUnsubscribeOf(<<"a1">>)
    \/ ConnectFails \/ ClientConnectEstablished \/ ConnectedSent
    \/ SubscribeFails \/ SubscribeSent
    \/ RecvTextPong \/ RecvTextParsed \/ RecvTextUnparsed \/ RecvControlFrame
    \/ RecvClose \/ RecvError \/ RecvEnd \/ RecvPingTick \/ SendReturns
    \/ HeartbeatTick \/ HeartbeatShutdown
    \/ ConsumerRecv \/ ConsumerDrop

SpecClient == InitClient /\ [][NextClient]_vars

(***************************************************************************)
(* SpecSubscriptions: the subscribed-market list of a PolymarketClient     *)
(* under subscribe and unsubscribe calls with every slice of ids, on a     *)
(* client that is connected and disconnected but not started.              *)
(***************************************************************************)
ClientSubscribe == \E asset_ids \in IdSlices : ClientSubscribeOf(asset_ids)

ClientUnsubscribe == \E asset_ids \in IdSlices : ClientUnsubscribeOf(asset_ids)

NextSubscriptions ==
    \/ ClientConnect \/ ClientDisconnect \/ ClientSubscribe \/ ClientUnsubscribe

SpecSubscriptions == InitClient /\ [][NextSubscriptions]_vars

(***************************************************************************)
(* SpecReconnect: connect_and_subscribe is called a second time on the     *)
(* same PolymarketWebSocketClient after the first call returned Ok(()).    *)
(* Every call clones the one Arc<AtomicBool> of the client into the two    *)
(* tasks it spawns, so the tasks of both connections share is_connected.   *)
(* The second call is given a Sender of the same output channel.  The      *)
(* variables of Spec describe the newest connection; `older` holds the two *)
(* tasks spawned by the first call, which nothing stops.                   *)
(***************************************************************************)
\* the second call: the tasks of the first connection go on detached
CallAgain ==
    /\ callPc = "ok" /\ older = NoOlder
    /\ older' = [recvPc |-> recvPc, pending |-> pending, hbPc |-> hbPc]
    /\ callPc' = "connecting"
    /\ recvPc' = "none"
    /\ pending' = NoPending
    /\ hbPc' = "none"
    /\ UNCHANGED <<is_connected, subscribed_assets, chan, rxOpen, delivered,
                   nFrames, nText, hbTicks, parseVars, strategyVars, clientVars>>

\* older message handling task, the Close, Err and None arms: the store of
\* false goes to the flag the newest connection uses too
OlderRecvTerminal ==
    /\ older.recvPc = "select"
    /\ is_connected' = FlagAfterTerminal
    /\ \E item \in
            { [frame |-> CloseFrame(reason),
               event |-> ConnectionStatusEvent(Disconnected(reason))] :
                  reason \in CloseReasons }
            \cup { [frame |-> ErrorItem(e), event |-> ConnectionStatusEvent(Error(e))] :
                      e \in TransportErrors }
            \cup { [frame |-> EndOfStream,
                    event |-> ConnectionStatusEvent(Disconnected(None))] } :
          older' = [older EXCEPT
                      !.recvPc = "sending",
                      !.pending = [site |-> "terminal",
                                   entry |-> Entry(item.event, nFrames + 1, item.frame),
                                   consumerGone |-> ~rxOpen]]
    /\ nFrames' = nFrames + 1
    /\ UNCHANGED <<callPc, subscribed_assets, chan, rxOpen, delivered, recvPc, pending,
                   nText, hbPc, hbTicks, parseVars, strategyVars, clientVars>>

\* older message handling task: its send returns
OlderSendReturns ==
    /\ older.recvPc = "sending"
    /\ SendCompletes(chan, rxOpen)
    /\ chan' = AfterSend(chan, rxOpen, older.pending.entry)
    /\ older' = [older EXCEPT
                   !.recvPc = IF ContinuesAfterSend(older.pending.site, rxOpen)
                              THEN "select" ELSE "exited",
                   !.pending = NoPending]
    /\ UNCHANGED <<callPc, is_connected, subscribed_assets, rxOpen, delivered, recvPc,
                   pending, nFrames, nText, hbPc, hbTicks, parseVars, strategyVars,
                   clientVars>>

\* older heartbeat task, interval.tick(): a tick that finds the flag set
\* changes nothing, one that finds it clear ends the task
OlderHeartbeatTick ==
    /\ older.hbPc = "waiting"
    /\ HeartbeatBreaks(is_connected)
    /\ older' = [older EXCEPT !.hbPc = "exited"]
    /\ UNCHANGED <<wsVars, parseVars, strategyVars, clientVars>>

\* older heartbeat task, heartbeat_rx.recv(): its heartbeat_tx was dropped
OlderHeartbeatShutdown ==
    /\ older.hbPc = "waiting"
    /\ older.recvPc = "exited"
    /\ older' = [older EXCEPT !.hbPc = "exited"]
    /\ UNCHANGED <<wsVars, parseVars, strategyVars, clientVars>>

\* the server sends no data on either connection: the only items the two
\* receive loops read are a close frame, a transport error and the end of
\* the stream
NextReconnect ==
    \/ Call \/ CallAgain
    \/ ConnectFails \/ ConnectEstablished \/ ConnectedSent
    \/ SubscribeFails \/ SubscribeSent
    \/ RecvClose \/ RecvError \/ RecvEnd \/ RecvPingTick \/ SendReturns
    \/ HeartbeatTick \/ HeartbeatShutdown
    \/ ConsumerRecv \/ ConsumerDrop
    \/ OlderRecvTerminal \/ OlderSendReturns
    \/ OlderHeartbeatTick \/ OlderHeartbeatShutdown

SpecReconnect == Init /\ [][NextReconnect]_vars

(***************************************************************************)
(* Properties.                                                             *)
(***************************************************************************)
\* every event enqueued and not discarded, in the order the consumer gets them
Log == delivered \o chan

IsConnectedEvent(entry) == entry.ev = ConnectionStatusEvent(Connected)

IsTerminalEvent(entry) ==
    /\ entry.ev.type = "ConnectionStatus"
    /\ entry.ev.status.tag \in {"Disconnected", "Error"}

FromText(entry) == entry.frame.kind = "text"

PendingFromText == pending # NoPending /\ FromText(pending.entry)

C2_FrameOrder ==
    /\ \A i, j \in 1..Len(Log) : i < j => Log[i].src < Log[j].src
    /\ \A i \in 1..Len(Log) : Log[i].src <= nFrames
    /\ pending # NoPending =>
          /\ pending.entry.src = nFrames
          /\ \A i \in 1..Len(Log) : Log[i].src < pending.entry.src

C2_Witness ==
    /\ Len(delivered) >= 3
    /\ FromText(delivered[2]) /\ FromText(delivered[3])
    /\ delivered[2].frame # delivered[3].frame

(* C3: while the consumer keeps the channel open no event is lost to a     *)
(* full channel: the buffer never exceeds its capacity; every text frame   *)
(* read has exactly one event, enqueued or being sent; and a task that is  *)
(* sending reads no frame, stays blocked while the buffer is full, and     *)
(* when its send returns the pending event is at the back of the buffer.   *)
C3_StateInv ==
    /\ Len(chan) <= Capacity
    /\ rxOpen =>
          Cardinality({ i \in 1..Len(Log) : FromText(Log[i]) })
             + (IF PendingFromText THEN 1 ELSE 0) = nText

C3_StepInv ==
    /\ recvPc = "sending" => nFrames' = nFrames /\ nText' = nText
    /\ (recvPc = "sending" /\ rxOpen /\ Len(chan) >= Capacity) =>
          (recvPc' = "sending" /\ pending' = pending)
    /\ (recvPc = "sending" /\ rxOpen /\ recvPc' # "sending") =>
          chan' = Append(chan, pending.entry)

C3_Backpressure == [] C3_StateInv /\ [][C3_StepInv]_vars

C3_Witness ==
    /\ rxOpen /\ Len(chan) = Capacity
    /\ recvPc = "sending" /\ PendingFromText

(* C4: a close frame, the end of the stream or a transport error clears    *)
(* the flag before its one terminal ConnectionStatus event is enqueued:    *)
(* Disconnected for a close frame (with its reason) or the stream end,     *)
(* Error for a transport error.  The terminal event is the last event of   *)
(* the connection, the flag is false whenever it is being sent, buffered   *)
(* or delivered, a loop that exited with the consumer present left it in   *)
(* the channel, and the call that spawned the loop returned Ok.            *)
ExpectedTerminal(frame) ==
    CASE frame.kind = "close" -> ConnectionStatusEvent(Disconnected(frame.reason))
      [] frame.kind = "end" -> ConnectionStatusEvent(Disconnected(None))
      [] frame.kind = "error" -> ConnectionStatusEvent(Error(frame.msg))

TerminalWellFormed(entry) ==
    IF entry.frame.kind \in {"close", "end", "error"}
    THEN entry.ev = ExpectedTerminal(entry.frame)
    ELSE ~IsTerminalEvent(entry)

C4_TerminalEvent ==
    /\ \A i \in 1..Len(Log) :
          /\ TerminalWellFormed(Log[i])
          /\ IsTerminalEvent(Log[i]) =>
                i = Len(Log) /\ ~is_connected /\ recvPc = "exited" /\ pending = NoPending
    /\ pending # NoPending =>
          /\ TerminalWellFormed(pending.entry)
          /\ IsTerminalEvent(pending.entry) <=> pending.site = "terminal"
          /\ IsTerminalEvent(pending.entry) => ~is_connected
    /\ (recvPc = "exited" /\ rxOpen) => (Len(Log) >= 1 /\ IsTerminalEvent(Log[Len(Log)]))
    /\ recvPc # "none" => callPc = "ok"

C4_Witness ==
    /\ Len(delivered) >= 2
    /\ delivered[Len(delivered)].frame.kind = "error"
    /\ IsTerminalEvent(delivered[Len(delivered)])
    /\ recvPc = "exited"

(* C5: the flag is false for a new client, is set only by the call's step  *)
(* that follows the establishment of the transport, and is cleared only by *)
(* the receive loop; once cleared it stays false, the only event still     *)
(* enqueued is the terminal status of that transition, and after the loop  *)
(* has exited nothing is enqueued at all; no Reconnecting event and no     *)
(* second Connected event is ever emitted.                                 *)
FlagCleared == ~is_connected /\ recvPc # "none"

C5_StateInv ==
    /\ callPc \in {"idle", "connecting"} => ~is_connected
    /\ \A i \in 1..Len(Log) :
          /\ Log[i].ev.type = "ConnectionStatus" => Log[i].ev.status.tag # "Reconnecting"
          /\ IsConnectedEvent(Log[i]) => Log[i].frame.kind = "call"

C5_StepInv ==
    /\ (~is_connected /\ is_connected') =>
          (callPc = "connecting" /\ callPc' = "sendingConnected")
    /\ (is_connected /\ ~is_connected') =>
          (recvPc = "select" /\ recvPc' = "sending" /\ pending'.site = "terminal")
    /\ FlagCleared =>
          /\ ~is_connected'
          /\ callPc' = callPc
          /\ recvPc' \in {"sending", "exited"}
          /\ Len(chan') > Len(chan) =>
                (recvPc = "sending" /\ IsTerminalEvent(chan'[Len(chan')]))
    /\ recvPc = "exited" => (recvPc' = "exited" /\ Len(chan') <= Len(chan))

C5_NoWayBack == [] C5_StateInv /\ [][C5_StepInv]_vars

C5_Witness ==
    /\ FlagCleared /\ recvPc = "exited"
    /\ Len(delivered) >= 2 /\ IsTerminalEvent(delivered[Len(delivered)])
    /\ hbPc = "exited"

(* C6: whenever connect_and_subscribe has returned an error the client is  *)
(* disconnected: the flag is false, no Connected event was put on the      *)
(* channel, and neither loop has been spawned.                             *)
C6_ErrorLeavesDisconnected ==
    callPc = "err" =>
        /\ ~is_connected
        /\ \A i \in 1..Len(Log) : ~IsConnectedEvent(Log[i])
        /\ recvPc = "none" /\ hbPc = "none"

(* C7: once the receive loop has cleared the flag the heartbeat loop does  *)
(* not survive a tick: no step taken with the flag cleared is a tick after *)
(* which the heartbeat loop goes on looping.                               *)
C7_HeartbeatStops == [][FlagCleared => hbTicks' = hbTicks]_vars

\* the heartbeat loop has left through the flag: its shutdown channel is still held
C7_Witness ==
    /\ FlagCleared
    /\ hbPc = "exited"
    /\ ~HeartbeatTxDropped

(* C8: once the consumer side of the channel is gone, the receive loop     *)
(* exits after the next text frame whatever it contains: when the send for *)
(* a text frame that was read with the consumer gone returns, the loop     *)
(* has exited.                                                             *)
C8_ExitsWhenConsumerGone ==
    [][(recvPc = "sending" /\ PendingFromText /\ pending.consumerGone
          /\ recvPc' # "sending") => recvPc' = "exited"]_vars

(* C9: a text frame that is not JSON, or is JSON without a recognised      *)
(* event_type and without both bids and asks, or that does not deserialise *)
(* into the shape parse_message picks for its event_type, gives (with the  *)
(* consumer present) exactly one Raw event whose message is the text of    *)
(* the frame; handling it leaves the flag set and the loop running.        *)
RecognisedEventType(text) ==
    /\ text.form = "object"
    /\ text.event_type \in {"book", "price_change", "trade", "last_trade_price"}

NotValidJson(text) == text.form \notin {"array", "object", "PONG", "pong"}

UnrecognisedJson(text) ==
    /\ text.form \in {"array", "object"}
    /\ ~RecognisedEventType(text)
    /\ ~(text.form = "object" /\ text.bids.st # "absent" /\ text.asks.st # "absent")

FailsItsShape(text) ==
    /\ RecognisedEventType(text)
    /\ CASE text.event_type = "book" -> ~DeserializesAsBookUpdateEvent(text)
         [] text.event_type = "price_change" -> ~DeserializesAsPriceChangeEvent(text)
         [] text.id # Absent -> ~DeserializesAsTradeEvent(text)
         [] OTHER -> ~DeserializesAsLastTradePriceEvent(text)

Malformed(text) == NotValidJson(text) \/ UnrecognisedJson(text) \/ FailsItsShape(text)

MalformedEntry(entry) == FromText(entry) /\ Malformed(entry.frame.text)

CarriesOriginalText(entry) ==
    /\ entry.ev.type = "Raw"
    /\ entry.ev.platform = "Polymarket"
    /\ entry.ev.message = entry.frame.text

C9_StateInv ==
    /\ \A i \in 1..Len(Log) :
          MalformedEntry(Log[i]) =>
              /\ CarriesOriginalText(Log[i])
              /\ \A j \in 1..Len(Log) : Log[j].src = Log[i].src => j = i
    /\ (pending # NoPending /\ MalformedEntry(pending.entry)) =>
          (CarriesOriginalText(pending.entry) /\ is_connected)

C9_StepInv ==
    (recvPc = "sending" /\ MalformedEntry(pending.entry) /\ rxOpen /\ recvPc' # "sending") =>
        /\ chan' = Append(chan, pending.entry)
        /\ recvPc' = "select"
        /\ is_connected /\ is_connected'
        /\ callPc' = "ok"

C9_MalformedBecomesRaw == [] C9_StateInv /\ [][C9_StepInv]_vars

C9_Witness ==
    /\ Len(delivered) >= 3
    /\ MalformedEntry(delivered[2]) /\ NotValidJson(delivered[2].frame.text)
    /\ FromText(delivered[3])
    /\ is_connected

(* C10: every non-pong text frame normalises to a typed MarketEvent or to  *)
(* a Raw event, and a Raw event's message is the original text.            *)
C10_RawCarriesOriginalText ==
    (outEvent # NoEvent /\ ~IsPongText(inText)) =>
        \/ outEvent.type \in TypedEventTypes
        \/ (outEvent.type = "Raw" /\ outEvent.message = inText)

(* C11: a book message (event_type "book", or no dispatched event_type but *)
(* both bids and asks, in the shape of BookUpdateEvent) normalises to an   *)
(* OrderBookUpdate, never to Raw; its bids and its asks are exactly the    *)
(* input levels whose price and size both parse, as parsed, in the input   *)
(* order; is_snapshot is true exactly when event_type is "book", so it is  *)
(* false for price_change and for structurally sniffed messages.           *)
IsBookMessage(text) ==
    /\ text.form = "object"
    /\ \/ text.event_type = "book"
       \/ /\ text.event_type \notin
                {EtNonString, "book", "price_change", "trade", "last_trade_price"}
          /\ text.bids.st # "absent" /\ text.asks.st # "absent"
    /\ text.asset_id # Absent
    /\ text.bids.st # "bad" /\ text.asks.st # "bad"

ParsingIndices(levels) ==
    { i \in 1..Len(levels) :
        ParseDecimal(levels[i].price) >= 0 /\ ParseDecimal(levels[i].size) >= 0 }

\* the position, among the levels that parse, of the level at index i
RankAmongParsing(levels, i) == Cardinality({ j \in ParsingIndices(levels) : j <= i })

ExactlyTheParsingLevels(out, levels) ==
    /\ Len(out) = Cardinality(ParsingIndices(levels))
    /\ \A i \in ParsingIndices(levels) :
          out[RankAmongParsing(levels, i)] =
              [price |-> ParseDecimal(levels[i].price),
               size |-> ParseDecimal(levels[i].size)]

C11_BookLevelsKept ==
    outEvent # NoEvent =>
        /\ IsBookMessage(inText) =>
              /\ outEvent.type = "OrderBookUpdate"
              /\ ExactlyTheParsingLevels(outEvent.bids, inText.bids.items)
              /\ ExactlyTheParsingLevels(outEvent.asks, inText.asks.items)
        /\ outEvent.type = "OrderBookUpdate" =>
              (outEvent.is_snapshot <=> inText.event_type = "book")

\* a level that fails to parse is dropped from between two that parse
C11_Witness ==
    /\ outEvent # NoEvent /\ IsBookMessage(inText)
    /\ inText.event_type = "book"
    /\ inText.bids.items = << [price |-> "abc", size |-> "100"],
                              [price |-> "0.52", size |-> "25"] >>
    /\ inText.asks.items = << [price |-> "0.52", size |-> "25"],
                              [price |-> "0.50", size |-> "100"] >>
    /\ outEvent.bids = << PriceLevel(52, 2500) >>
    /\ outEvent.asks = << PriceLevel(52, 2500), PriceLevel(50, 10000) >>
    /\ outEvent.is_snapshot

(* C12: a Trade event carries the price, the size and the side that the    *)
(* trade message states: its price and size are the decimals written in    *)
(* the message (so both parse), and its side is Buy exactly for buy / bid  *)
(* and Sell exactly for sell / ask, whatever the case of the token.        *)
C12_TradeAsStated ==
    (outEvent # NoEvent /\ outEvent.type = "Trade") =>
        /\ ParseDecimal(inText.price) >= 0 /\ outEvent.price = ParseDecimal(inText.price)
        /\ ParseDecimal(inText.size) >= 0 /\ outEvent.size = ParseDecimal(inText.size)
        /\ outEvent.side = "Buy" <=> to_lowercase(inText.side) \in {"buy", "bid"}
        /\ outEvent.side = "Sell" <=> to_lowercase(inText.side) \in {"sell", "ask"}

(* C13: in every reachable cache state get_sized_intent returns None       *)
(* exactly when the key of at least one leg has no entry in the cache;     *)
(* otherwise it returns one sized leg per intent leg, in the order of the  *)
(* legs, each with the leg's platform, market and side and the size of the *)
(* cache entry of the leg's key; can_size is true exactly when             *)
(* get_sized_intent does not return None.                                  *)
KeyAbsent(leg) ==
    \A e \in sizes :
        ~(e.key.platform = leg.platform /\ e.key.market_id = leg.market_id
            /\ e.key.side = leg.side)

SomeKeyAbsent(intent) == \E i \in 1..Len(intent.legs) : KeyAbsent(intent.legs[i])

SizedFromCache(sized_leg, leg) ==
    /\ sized_leg.platform = leg.platform
    /\ sized_leg.market_id = leg.market_id
    /\ sized_leg.side = leg.side
    /\ \E e \in sizes :
          /\ e.key.platform = leg.platform /\ e.key.market_id = leg.market_id
          /\ e.key.side = leg.side
          /\ sized_leg.size = e.value.size

C13_AllLegsOrNone ==
    /\ lastCall.op = "get_sized_intent" =>
          /\ lastCall.ret = OptionNone <=> SomeKeyAbsent(lastCall.intent)
          /\ lastCall.ret # OptionNone =>
                /\ Len(lastCall.ret[1].legs) = Len(lastCall.intent.legs)
                /\ \A i \in 1..Len(lastCall.intent.legs) :
                      SizedFromCache(lastCall.ret[1].legs[i], lastCall.intent.legs[i])
    /\ lastCall.op = "can_size" =>
          (lastCall.ret <=> get_sized_intent(sizes, lastCall.intent) # OptionNone)

\* one leg resolved and one not: the answer is None, and can_size says no
C13_Witness ==
    /\ lastCall.op = "get_sized_intent"
    /\ Len(lastCall.intent.legs) = 2
    /\ ~KeyAbsent(lastCall.intent.legs[1])
    /\ KeyAbsent(lastCall.intent.legs[2])
    /\ lastCall.ret = OptionNone
    /\ ~can_size(sizes, lastCall.intent)

(* C14 as stated: for a SizedIntent returned by get_sized_intent, whatever *)
(* the number of legs of the intent, is_valid() is true exactly when the   *)
(* size the cache holds for every leg is strictly positive.                *)
CachedSizePositive(leg) ==
    \A e \in sizes :
        (e.key.platform = leg.platform /\ e.key.market_id = leg.market_id
            /\ e.key.side = leg.side) => e.value.size > 0

EveryLegPositive(legs) == \A i \in 1..Len(legs) : CachedSizePositive(legs[i])

C14_ValidIffEveryLegPositive ==
    lastCall.op = "is_valid" =>
        (lastCall.ret <=> EveryLegPositive(lastCall.intent.legs))

(* C14 amended: for a SizedIntent returned by get_sized_intent, is_valid() *)
(* is true exactly when the intent has at least one leg and the size the   *)
(* cache holds for every leg is strictly positive.                         *)
C14_ValidIffLegsAndEveryLegPositive ==
    lastCall.op = "is_valid" =>
        (lastCall.ret <=>
            (Len(lastCall.intent.legs) >= 1 /\ EveryLegPositive(lastCall.intent.legs)))

\* two resolved legs, one of size zero: not valid
C14_Witness ==
    /\ lastCall.op = "is_valid"
    /\ Len(lastCall.sized.legs) = 2
    /\ lastCall.sized.legs[1].size > 0
    /\ lastCall.sized.legs[2].size = 0
    /\ ~lastCall.ret

(* C15: after any sequence of set_size, remove_size and clear, get_size(k) *)
(* returns the entry of the most recent set_size for k when no             *)
(* remove_size(k) or clear came after it, and None otherwise; the cache    *)
(* holds at most one entry per key, stored under the key of its own        *)
(* platform, market and side; len() is the number of keys present; a       *)
(* set_size or remove_size leaves the entries of all other keys as they    *)
(* were; and get_size, get_sized_intent, can_size, is_valid and len leave  *)
(* the cache unchanged.                                                    *)
EntriesOf(map, key) == { e \in map : e.key = key }

QueryOps == {"get_size", "get_sized_intent", "can_size", "is_valid", "len"}

C15_StateInv ==
    /\ lastCall.op = "get_size" => lastCall.ret = lastSet[lastCall.key]
    /\ \A e1, e2 \in sizes : e1.key = e2.key => e1 = e2
    /\ \A e \in sizes :
          e.key = [platform |-> e.value.platform, market_id |-> e.value.market_id,
                   side |-> e.value.side]
    /\ lastCall.op = "len" =>
          lastCall.ret = Cardinality({ k \in SizeKeys : lastSet[k] # OptionNone })

C15_StepInv ==
    /\ lastCall'.op \in {"set_size", "remove_size"} =>
          \A k \in SizeKeys \ {lastCall'.key} : EntriesOf(sizes', k) = EntriesOf(sizes, k)
    /\ lastCall'.op \in QueryOps => sizes' = sizes

C15_CacheIsKeyedStore == [] C15_StateInv /\ [][C15_StepInv]_vars

\* get_size returns the entry set for its key while another key has an entry too
C15_Witness ==
    /\ lastCall.op = "get_size"
    /\ lastCall.ret # OptionNone
    /\ lastCall.ret[1].computed_at = 2
    /\ Cardinality(sizes) = 2
    /\ updater.pc = "idle"

(* C16: a get_size made while the updater is computing and publishing an   *)
(* entry for the same key returns the complete entry in force before the   *)
(* update or the complete entry of the update, never a mixture of the two; *)
(* and get_size is never held up: it can be called in every state, also    *)
(* while a size computation is under way.                                  *)
InFlight(key) ==
    IF updater.pc = "computing" /\ from_leg(updater.size) = key
    THEN { Some(updater.size) }
    ELSE {}

C16_NeverTornNeverWaits ==
    /\ lastCall.op = "get_size" =>
          /\ lastCall.ret \in {lastSet[lastCall.key]} \cup InFlight(lastCall.key)
          /\ lastCall.ret # OptionNone => lastCall.ret[1] \in ComputedSizes
    /\ \A key \in SizeKeys : ENABLED GetSizeOf(key)

\* get_size answered with the earlier entry while the update of its key was
\* being computed
C16_Witness ==
    /\ lastCall.op = "get_size"
    /\ updater.pc = "computing"
    /\ from_leg(updater.size) = lastCall.key
    /\ lastCall.ret # OptionNone
    /\ lastCall.ret[1] # updater.size
    /\ lastCall.ret[1].price # updater.size.price

(* C17: on the zero-fee venue (Polymarket), for every price, size and      *)
(* side, entry_cost is price * size and exit_value is 1.0.                 *)
C17_ZeroFeeVenue ==
    feeIn.platform = "Polymarket" =>
        /\ feeOut.fn = "entry_cost" => feeOut.value = DecMul(feeIn.price, feeIn.size)
        /\ feeOut.fn = "exit_value" => feeOut.value = Dec(10, 1)

(* C18: on the profit-based-fee venue (Kalshi, 7%), for every buy price p  *)
(* and size s, entry_cost is p * s, exit_value is 1 - (1 - p) * 0.07 and   *)
(* net_profit is exit_value * s - p * s; for p = 0.40 and s = 100 these    *)
(* are 40.0, 0.958 and 55.8.                                               *)
KalshiExitPerUnit(p) == DecSub(Dec(1, 0), DecMul(DecSub(Dec(1, 0), p), Dec(7, 2)))

C18_KalshiBuy ==
    (feeIn.platform = "Kalshi" /\ feeIn.side = "Buy") =>
        /\ feeOut.fn = "entry_cost" =>
              /\ feeOut.value = DecMul(feeIn.price, feeIn.size)
              /\ (feeIn.price = Dec(40, 2) /\ feeIn.size = Dec(100, 0)) =>
                    feeOut.value = Dec(400, 1)
        /\ feeOut.fn = "exit_value" =>
              /\ feeOut.value = KalshiExitPerUnit(feeIn.price)
              /\ feeIn.price = Dec(40, 2) => feeOut.value = Dec(958, 3)
        /\ feeOut.fn = "net_profit" =>
              /\ feeOut.value =
                    DecSub(DecMul(KalshiExitPerUnit(feeIn.price), feeIn.size),
                           DecMul(feeIn.price, feeIn.size))
              /\ (feeIn.price = Dec(40, 2) /\ feeIn.size = Dec(100, 0)) =>
                    feeOut.value = Dec(558, 1)

C18_Witness ==
    /\ feeIn = [platform |-> "Kalshi", price |-> Dec(40, 2), side |-> "Buy",
                size |-> Dec(1000, 1)]
    /\ feeOut = [fn |-> "net_profit", value |-> Dec(558, 1)]

(* C19: when connect_and_subscribe returns Ok the flag is set, and from    *)
(* then on it is cleared only by the step in which the receive loop reads  *)
(* a close frame, the end of the stream or a transport error; so           *)
(* is_connected() is true in every state in which the call has returned Ok *)
(* and the loop has not yet read one of the three.                         *)
ReadsTerminal ==
    /\ recvPc = "select" /\ recvPc' = "sending"
    /\ pending'.site = "terminal"
    /\ pending'.entry.frame.kind \in {"close", "end", "error"}

C19_StateInv ==
    /\ (callPc = "ok" /\ recvPc = "select") => is_connected
    /\ (callPc = "ok" /\ recvPc = "sending" /\ pending.site # "terminal") => is_connected

C19_StepInv ==
    /\ (callPc # "ok" /\ callPc' = "ok") => is_connected'
    /\ (callPc = "ok" /\ is_connected /\ ~is_connected') => ReadsTerminal

C19_ConnectedUntilTerminal == [] C19_StateInv /\ [][C19_StepInv]_vars

\* the loop left through a failed send, without a close, an end or an
\* error: the flag is still set
C19_Witness ==
    /\ callPc = "ok"
    /\ recvPc = "exited"
    /\ ~rxOpen
    /\ nFrames = MaxFrames
    /\ is_connected

(* C20: once PolymarketClient::disconnect() has returned the connection is *)
(* closed: is_connected() is false, the receive loop reads no further text *)
(* frame, the only event still put on the output channel is the terminal   *)
(* status of the closing connection, and the heartbeat loop does not go on *)
(* ticking.                                                                *)
C20_StateInv == disconnected => ~ClientIsConnected

C20_StepInv ==
    disconnected =>
        /\ nText' = nText
        /\ Len(chan') > Len(chan) => pending.site = "terminal"
        /\ hbTicks' = hbTicks

C20_ClosedAfterDisconnect == [] C20_StateInv /\ [][C20_StepInv]_vars

(***************************************************************************)
(* C21: the OrderBookUpdate events one connection emits for the same asset *)
(* carry increasing sequence numbers: of two such events, the one made     *)
(* from the later frame has the greater sequence number.                   *)
(***************************************************************************)
IsOrderBookUpdate(entry) == entry.ev.type = "OrderBookUpdate"

C21_SequenceIncreases ==
    \A i, j \in 1..Len(Log) :
        ( /\ i < j
          /\ IsOrderBookUpdate(Log[i]) /\ IsOrderBookUpdate(Log[j])
          /\ Log[i].ev.asset_id = Log[j].ev.asset_id )
        => Log[i].ev.sequence < Log[j].ev.sequence

(***************************************************************************)
(* C22: the liveness flag has a single writer, the receive loop.           *)
(* C22_ReceiveLoopSoleWriter is the claim as stated: every step that       *)
(* changes the flag is a step of the message handling task.                *)
(* C22_TwoWritersReadersOnlyRead is what the code does: the flag is        *)
(* stored by connect_and_subscribe itself (true, once, before the two      *)
(* tasks are spawned) and by the Close, Err and None arms of the receive   *)
(* loop (false); every step of the heartbeat task, of the consumer and of  *)
(* the other arms of the receive loop leaves it as it is.                  *)
(***************************************************************************)
ReceiveLoopStep ==
    \/ RecvTextPong \/ RecvTextParsed \/ RecvTextUnparsed \/ RecvControlFrame
    \/ RecvClose \/ RecvError \/ RecvEnd \/ RecvPingTick \/ SendReturns

TerminalArmStep == RecvClose \/ RecvError \/ RecvEnd

FlagWritten == is_connected' # is_connected

C22_ReceiveLoopSoleWriter == [][FlagWritten => ReceiveLoopStep]_vars

C22_StepInv ==
    /\ FlagWritten =>
          \/ ConnectEstablished /\ recvPc = "none" /\ hbPc = "none" /\ is_connected'
          \/ TerminalArmStep /\ ~is_connected'
    /\ (HeartbeatTick \/ HeartbeatShutdown \/ ConsumerRecv \/ ConsumerDrop)
          => ~FlagWritten

C22_TwoWritersReadersOnlyRead == [][C22_StepInv]_vars

\* the caller stored true, the receive loop stored false, and the heartbeat
\* task has read the flag at a tick in between
C22_Witness ==
    /\ callPc = "ok" /\ ~is_connected
    /\ recvPc = "exited" /\ hbTicks >= 1 /\ hbPc = "exited"

(***************************************************************************)
(* C23: in every state in which the receive loop has exited, for whatever  *)
(* reason, is_connected() is false.                                        *)
(***************************************************************************)
C23_ExitedMeansNotConnected == recvPc = "exited" => ~is_connected

(***************************************************************************)
(* C24: after a second successful connect_and_subscribe on the same client *)
(* is_connected() reflects the newest connection: while the newest         *)
(* connection is open (its call returned Ok and its receive loop has read  *)
(* no close, end or error) the flag is true, whatever the older connection *)
(* reads, and the newest connection's heartbeat loop is running.           *)
(***************************************************************************)
NewestOpen == older # NoOlder /\ callPc = "ok" /\ recvPc = "select"

C24_NewestConnectionRules == NewestOpen => (is_connected /\ hbPc = "waiting")

(***************************************************************************)
(* C25: PolymarketClient::start returns Ok only if that call established a *)
(* WebSocket connection: at the step where start returns Ok, is_connected()*)
(* is true and, the consumer holding the Receiver, a Connected event has   *)
(* been put on the sender.                                                 *)
(***************************************************************************)
StartReturnsOk == callPc \notin {"ok", "started"} /\ callPc' \in {"ok", "started"}

C25_StepInv ==
    StartReturnsOk =>
        /\ ClientIsConnected'
        /\ rxOpen' => \E i \in 1..Len(Log') : IsConnectedEvent(Log'[i])

C25_StartOkMeansConnected == [][C25_StepInv]_vars

(***************************************************************************)
(* C26: once PolymarketClient::start has succeeded by connecting, the      *)
(* assets subscribed on the WebSocket connection equal the client's        *)
(* subscribed-market list, also after later subscribe and unsubscribe      *)
(* calls.                                                                  *)
(***************************************************************************)
Ids(list) == { list[i] : i \in 1..Len(list) }

C26_ConnectionFollowsMarketList ==
    callPc = "ok" => Ids(subscribed_assets) = Ids(subscribed_markets)

(***************************************************************************)
(* C27: the subscribed-market list never holds an id twice.  A subscribe   *)
(* call keeps the list as a prefix and appends the ids of its slice that   *)
(* were absent, each once, in the order in which the slice first names     *)
(* them; an unsubscribe call removes exactly the ids of its slice and      *)
(* keeps the others in their order.  So the list holds exactly the ids     *)
(* subscribed and not unsubscribed afterwards, in insertion order, and     *)
(* subscribing present ids or unsubscribing absent ones changes nothing.   *)
(***************************************************************************)
NoDuplicate(list) == \A i, j \in 1..Len(list) : list[i] = list[j] => i = j

PosIn(list, id) == CHOOSE i \in 1..Len(list) : list[i] = id /\ \A j \in 1..(i - 1) : list[j] # id

\* ids common to both lists stand in the same order in both
SameOrder(a, b) ==
    \A x, y \in Ids(a) \cap Ids(b) : PosIn(a, x) < PosIn(a, y) <=> PosIn(b, x) < PosIn(b, y)

IsPrefix(a, b) == Len(a) <= Len(b) /\ \A i \in 1..Len(a) : a[i] = b[i]

SubscribeAsStated(before, asset_ids, after) ==
    /\ Ids(after) = Ids(before) \cup Ids(asset_ids)
    /\ IsPrefix(before, after)
    /\ \A i, j \in (Len(before) + 1)..Len(after) :
          i < j => PosIn(asset_ids, after[i]) < PosIn(asset_ids, after[j])
    /\ Ids(asset_ids) \subseteq Ids(before) => after = before

UnsubscribeAsStated(before, asset_ids, after) ==
    /\ Ids(after) = Ids(before) \ Ids(asset_ids)
    /\ SameOrder(before, after)
    /\ Ids(asset_ids) \cap Ids(before) = {} => after = before

C27_StepInv ==
    \A asset_ids \in IdSlices :
        /\ ClientSubscribeOf(asset_ids) =>
              SubscribeAsStated(subscribed_markets, asset_ids, subscribed_markets')
        /\ ClientUnsubscribeOf(asset_ids) =>
              UnsubscribeAsStated(subscribed_markets, asset_ids, subscribed_markets')

C27_MarketListIsOrderedSet ==
    /\ [](NoDuplicate(subscribed_markets))
    /\ [][C27_StepInv]_vars

\* three ids are listed, the first two still in the order in which they
\* were subscribed
C27_Witness ==
    /\ Len(subscribed_markets) = 3
    /\ subscribed_markets[1] = "a2" /\ subscribed_markets[2] = "a1"

(***************************************************************************)
(* C28: oldest_computation_age and the legs of the intent.                 *)
(* C28_AgeOnlyWhenFullySized is the claim as stated: a value is returned   *)
(* only for an intent every leg of which has a cached size, it is then the *)
(* largest age over all legs, and an intent with an unresolved leg gives   *)
(* None.                                                                   *)
(* C28_AgeOfOldestCachedLeg is what the code does: the value is the        *)
(* largest age, now minus computed_at, over the legs that have a cached    *)
(* size, legs without one being skipped; None is returned exactly when no  *)
(* leg has a cached size, which includes the intent without legs.          *)
(***************************************************************************)
AgeCall == lastCall.op = "oldest_computation_age"

CachedLegs(call) ==
    { i \in 1..Len(call.intent.legs) : ~KeyAbsent(from_leg(call.intent.legs[i])) }

LegAge(call, i) ==
    call.now - HashMapGet(sizes, from_leg(call.intent.legs[i]))[1].computed_at

IsLargestAgeOver(call, legs) ==
    /\ \E i \in legs : call.ret[1] = LegAge(call, i)
    /\ \A i \in legs : call.ret[1] >= LegAge(call, i)

C28_AgeOnlyWhenFullySized ==
    AgeCall =>
        /\ lastCall.ret # OptionNone =>
              /\ can_size(sizes, lastCall.intent)
              /\ IsLargestAgeOver(lastCall, 1..Len(lastCall.intent.legs))
        /\ ~can_size(sizes, lastCall.intent) => lastCall.ret = OptionNone

C28_AgeOfOldestCachedLeg ==
    AgeCall =>
        /\ lastCall.ret = OptionNone <=> CachedLegs(lastCall) = {}
        /\ lastCall.ret # OptionNone => IsLargestAgeOver(lastCall, CachedLegs(lastCall))

\* two legs with cached sizes of different ages, and the older one reported
C28_Witness ==
    /\ AgeCall /\ lastCall.ret # OptionNone
    /\ \E i, j \in CachedLegs(lastCall) :
          LegAge(lastCall, i) < LegAge(lastCall, j) /\ lastCall.ret[1] = LegAge(lastCall, j)

(***************************************************************************)
(* C29: fees never increase profit: for every price in [0, 1], every size  *)
(* >= 0 and each side, net_profit on Kalshi is at most net_profit of the   *)
(* same trade on Polymarket.                                               *)
(***************************************************************************)
DecLe(a, b) == DecSub(a, b).m <= 0

InUnitInterval(price) == DecLe(Dec(0, 0), price) /\ DecLe(price, Dec(1, 0))

C29_FeesNeverIncreaseProfit ==
    ( /\ feeOut.fn = "net_profit" /\ feeIn.platform = "Kalshi"
      /\ InUnitInterval(feeIn.price) /\ DecLe(Dec(0, 0), feeIn.size) )
    => DecLe(feeOut.value,
             net_profit("Polymarket", feeIn.price, feeIn.side, feeIn.size))

(***************************************************************************)
(* C30: with no fee charged on either venue, arbitrage_profit for buying   *)
(* at b and selling at s with the same size is (s - b) * size.             *)
(***************************************************************************)
C30_ArbitrageProfitBeforeFees ==
    ( /\ feeOut.fn = "arbitrage_profit"
      /\ feeIn.platform = "Polymarket" /\ feeOut.sell_platform = "Polymarket" )
    => feeOut.value = DecMul(DecSub(feeOut.sell_price, feeIn.price), feeIn.size)

=============================================================================
